---- MODULE Spec2Model ----
(***************************************************************************)
(* AT89S52 four-function calculator firmware (src/calculator.c).           *)
(*                                                                         *)
(* The model has three layers:                                             *)
(*   - the key matrix as the firmware sees it: which contacts are closed,  *)
(*     and what a raster pass of keypad_scan samples while a contact is    *)
(*     still bouncing after an edge;                                       *)
(*   - keypad_getkey, one step per call of keypad_scan it makes;           *)
(*   - one iteration of the while(1) loop of main for the key returned;    *)
(*     the loops of src/unnamed/part_000 and src/README.md are fed the     *)
(*     same keys alongside it.                                             *)
(* Characters are their ASCII codes and operands are 32-bit two's          *)
(* complement values (Keil C51 `long`).                                    *)
(***************************************************************************)
EXTENDS Integers, Sequences, FiniteSets, TLC

VARIABLES
    down,     \* contacts physically closed: set of [r, c, id, hold]
    prev,     \* the contacts closed before the most recent edge
    stale,    \* raster passes that may still sample `prev` (contact bounce)
    npress,   \* press edges so far; the id of the latest press cycle
    ndig,     \* digit keys pressed in a row (the user's operand length)
    env,      \* the class of environment: [held, bounce, presses, keys, patient]
    pc,       \* where keypad_getkey / main stands
    k,        \* keypad_getkey: char k
    scanned,  \* the value the last call of keypad_scan returned
    seen,     \* the contacts the last raster pass sampled as closed
    key,      \* main: char key
    num1,     \* main: long num1
    num2,     \* main: long num2
    res,      \* main: long res
    op,       \* main: char op
    have_op,  \* main: unsigned char have_op
    err,      \* main: unsigned char err
    out,      \* lcd_cmd / lcd_data requests issued by the last loop iteration
    part000,  \* src/unnamed/part_000 fed the same keys: main's locals, error_flag
    readme,   \* src/README.md fed the same keys: main's locals
    cyc,      \* the contact the confirmation poll sampled, while a return is pending
    bounced,  \* a confirmation poll has rejected k since main last took a key
    reported, \* press cycles already returned whose contact can still be read
    holds,    \* holds already reported whose contacts can still be read
    most,     \* the most returns one press cycle has had (2: twice or more)
    holdMost  \* the most returns one hold has had (2: twice or more)

vars == <<down, prev, stale, npress, ndig, env, pc, k, scanned, seen,
          key, num1, num2, res, op, have_op, err, out, part000, readme,
          cyc, bounced, reported, holds, most, holdMost>>

envVars  == <<down, prev, stale, npress, ndig, env>>
padVars  == <<pc, k, scanned, seen>>
calcVars == <<key, num1, num2, res, op, have_op, err, out, part000, readme>>
ghostVars == <<cyc, bounced, reported, holds, most, holdMost>>

-----------------------------------------------------------------------------
(* Bounds of the model *)

\* keys held at the same time, stale raster passes per edge and press edges,
\* in the keypad environment (bouncing contacts, overlapping holds)
MaxHeld == 2
MaxBounce == 1
MaxPresses == 3
\* press edges in the clean environment that drives the calculator with
\* every key the claims name
CalcPresses == 6
\* press edges in the environments that type two expressions in a row
ChainPresses == 8
FaultPresses == 8
\* digit keys the user types in a row
MaxDigits == 1
\* press edges in the environment of the liveness check
LivePresses == 2
\* press edges in the environment that starts from operands already typed
OperandPresses == 2
\* press edges in the environment that presses every key of the matrix
LayoutPresses == 2

-----------------------------------------------------------------------------
(* Characters *)

\* C character constants: the ASCII code of a one-character string
Asc(s) ==
    CASE s = " " -> 32 [] s = "*" -> 42 [] s = "+" -> 43 [] s = "-" -> 45
      [] s = "/" -> 47 [] s = "0" -> 48 [] s = "1" -> 49 [] s = "2" -> 50
      [] s = "3" -> 51 [] s = "4" -> 52 [] s = "5" -> 53 [] s = "6" -> 54
      [] s = "7" -> 55 [] s = "8" -> 56 [] s = "9" -> 57 [] s = ":" -> 58
      [] s = "=" -> 61 [] s = "C" -> 67 [] s = "E" -> 69 [] s = "R" -> 82
      [] s = "e" -> 101 [] s = "l" -> 108 [] s = "n" -> 110 [] s = "o" -> 111
      [] s = "r" -> 114 [] s = "s" -> 115 [] s = "t" -> 116 [] s = "u" -> 117

\* a string literal as the characters lcd_print walks over
Chars(strs) == [i \in 1..Len(strs) |-> Asc(strs[i])]

c_0 == Asc("0")
c_9 == Asc("9")
c_plus == Asc("+")
c_minus == Asc("-")
c_star == Asc("*")
c_slash == Asc("/")
c_eq == Asc("=")
c_C == Asc("C")
c_sp == Asc(" ")

EnterStr == Chars(<<"E", "n", "t", "e", "r", ":">>)
ResultStr == Chars(<<"R", "e", "s", "u", "l", "t", ":">>)
ErrorStr == Chars(<<"E", "r", "r", "o", "r", ":", " ", "/", "0">>)

-----------------------------------------------------------------------------
(* 32-bit signed arithmetic of `long` *)

MaxLong == 2147483647
MinLong == -MaxLong - 1

\* a + b, wrapped into MinLong..MaxLong without leaving that range on the way;
\* a function, so that both operands are values before the sum is formed
AddLong[a \in Int, b \in Int] ==
    IF a >= 0 /\ b >= 0 /\ a > MaxLong - b
        THEN ((a - MaxLong) + (b - MaxLong)) - 2
    ELSE IF a < 0 /\ b < 0 /\ a < MinLong - b
        THEN ((a + MaxLong) + (b + MaxLong)) + 2
    ELSE a + b

Add32(a, b) == AddLong[a, b]

\* -a; the most negative value negates to itself
Neg32(a) == IF a = MinLong THEN MinLong ELSE -a

Sub32(a, b) == Add32(a, Neg32(b))

\* a * b modulo 2^32 by doubling
MulLong[a \in Int, b \in Int] ==
    IF b = 0 THEN 0
    ELSE IF b = MinLong THEN (IF a % 2 = 0 THEN 0 ELSE MinLong)
    ELSE IF b < 0 THEN Neg32(MulLong[a, -b])
    ELSE IF b % 2 = 1 THEN Add32(a, MulLong[Add32(a, a), b \div 2])
    ELSE MulLong[Add32(a, a), b \div 2]

Mul32(a, b) == MulLong[a, b]

Abs(a) == IF a < 0 THEN -a ELSE a

\* a / b of C for b # 0: the quotient truncated toward zero; the library
\* routine divides the magnitudes, so MinLong / -1 comes back as MinLong
Div32(a, b) ==
    IF a = MinLong
        THEN (IF b = -1 THEN MinLong
              ELSE IF b = 1 THEN MinLong
              ELSE IF b = MinLong THEN 1
              ELSE LET q == (MaxLong \div Abs(b))
                       r == (MaxLong % Abs(b))
                       m == IF r + 1 = Abs(b) THEN q + 1 ELSE q
                   IN IF b < 0 THEN m ELSE -m)
    ELSE IF b = MinLong THEN 0
    ELSE LET m == Abs(a) \div Abs(b)
         IN IF (a < 0) = (b < 0) THEN m ELSE -m

-----------------------------------------------------------------------------
(* Display requests: what reaches lcd_cmd and lcd_data *)

lcd_cmd(cmd) == << <<"cmd", cmd % 256>> >>

lcd_data(dat) == << <<"data", dat % 256>> >>

lcd_clear == lcd_cmd(1)

lcd_goto(row, col) == IF row = 0 THEN lcd_cmd(128 + col) ELSE lcd_cmd(192 + col)

lcd_print(str) == [i \in 1..Len(str) |-> <<"data", str[i] % 256>>]

\* the first loop of lcd_print_num: buf[0], buf[1], ... for n and index i
RECURSIVE FillBuf(_, _)
FillBuf(n, i) ==
    IF n > 0 /\ i < 11
        THEN <<(n % 10) + c_0>> \o FillBuf(n \div 10, i + 1)
        ELSE <<>>

lcd_print_num(n) ==
    IF n = 0 THEN lcd_data(c_0)
    ELSE LET sign == IF n < 0 THEN lcd_data(c_minus) ELSE <<>>
             m    == IF n < 0 THEN Neg32(n) ELSE n
             buf  == FillBuf(m, 0)
             i    == Len(buf)
         IN sign \o [j \in 1..i |-> <<"data", buf[i + 1 - j] % 256>>]

-----------------------------------------------------------------------------
(* The key matrix *)

Rows == 1..4
Cols == 1..4

\* the symbol keypad_scan returns when R<r> reads 0 while C<c> is driven low
KeyTable ==
    << <<Asc("7"), Asc("4"), Asc("1"), Asc("C")>>,
       <<Asc("8"), Asc("5"), Asc("2"), Asc("0")>>,
       <<Asc("9"), Asc("6"), Asc("3"), Asc("=")>>,
       <<Asc("/"), Asc("*"), Asc("-"), Asc("+")>> >>

\* mutant: the table is read with row and column exchanged
KeyAtTransposed(r, c) == KeyTable[r][c]

KeyAt(r, c) == KeyTable[c][r]

\* R<r> reads 0 while C<c> is low: a contact at (r, c) is sampled closed
Low(lines, r, c) == \E l \in lines : l.r = r /\ l.c = c

\* mutant: the raster walks row by row instead of column by column
keypad_scan_by_rows(lines) ==
    LET Row(r) ==
            IF Low(lines, r, 1) THEN KeyAt(r, 1)
            ELSE IF Low(lines, r, 2) THEN KeyAt(r, 2)
            ELSE IF Low(lines, r, 3) THEN KeyAt(r, 3)
            ELSE IF Low(lines, r, 4) THEN KeyAt(r, 4)
            ELSE 0
    IN IF Row(1) # 0 THEN Row(1)
       ELSE IF Row(2) # 0 THEN Row(2)
       ELSE IF Row(3) # 0 THEN Row(3)
       ELSE Row(4)

\* one raster pass over the contacts sampled closed; 0 when none reads low
keypad_scan(lines) ==
    LET Column(c) ==
            IF Low(lines, 1, c) THEN KeyAt(1, c)
            ELSE IF Low(lines, 2, c) THEN KeyAt(2, c)
            ELSE IF Low(lines, 3, c) THEN KeyAt(3, c)
            ELSE IF Low(lines, 4, c) THEN KeyAt(4, c)
            ELSE 0
    IN IF Column(1) # 0 THEN Column(1)
       ELSE IF Column(2) # 0 THEN Column(2)
       ELSE IF Column(3) # 0 THEN Column(3)
       ELSE Column(4)

\* keypad_scan of src/unnamed/part_000: the same raster on other port pins
part000_keypad_scan(lines) ==
    IF Low(lines, 1, 1) THEN Asc("7")
    ELSE IF Low(lines, 2, 1) THEN Asc("4")
    ELSE IF Low(lines, 3, 1) THEN Asc("1")
    ELSE IF Low(lines, 4, 1) THEN Asc("C")
    ELSE IF Low(lines, 1, 2) THEN Asc("8")
    ELSE IF Low(lines, 2, 2) THEN Asc("5")
    ELSE IF Low(lines, 3, 2) THEN Asc("2")
    ELSE IF Low(lines, 4, 2) THEN Asc("0")
    ELSE IF Low(lines, 1, 3) THEN Asc("9")
    ELSE IF Low(lines, 2, 3) THEN Asc("6")
    ELSE IF Low(lines, 3, 3) THEN Asc("3")
    ELSE IF Low(lines, 4, 3) THEN Asc("=")
    ELSE IF Low(lines, 1, 4) THEN Asc("/")
    ELSE IF Low(lines, 2, 4) THEN Asc("*")
    ELSE IF Low(lines, 3, 4) THEN Asc("-")
    ELSE IF Low(lines, 4, 4) THEN Asc("+")
    ELSE 0

\* keymap of src/README.md: keymap[row][col], rows and columns from 1 here
keymap ==
    << <<Asc("1"), Asc("2"), Asc("3"), Asc("+")>>,
       <<Asc("4"), Asc("5"), Asc("6"), Asc("-")>>,
       <<Asc("7"), Asc("8"), Asc("9"), Asc("*")>>,
       <<Asc("C"), Asc("0"), Asc("="), Asc("/")>> >>

\* keypad_getkey of src/README.md on steady contacts: the rows are driven
\* low in turn; the first row in which a column reads low gives row, the
\* lowest column that reads low gives col, and keymap[row][col] is returned
\* (0 here while no column reads low in any row and the loop goes on)
readme_keypad_getkey(lines) ==
    LET AnyLow(row) == \E col \in Cols : Low(lines, row, col)
        ColOf(row) ==
            IF Low(lines, row, 1) THEN 1
            ELSE IF Low(lines, row, 2) THEN 2
            ELSE IF Low(lines, row, 3) THEN 3
            ELSE IF Low(lines, row, 4) THEN 4
            ELSE 1
        Row(row) == IF AnyLow(row) THEN keymap[row][ColOf(row)] ELSE 0
    IN IF Row(1) # 0 THEN Row(1)
       ELSE IF Row(2) # 0 THEN Row(2)
       ELSE IF Row(3) # 0 THEN Row(3)
       ELSE Row(4)

-----------------------------------------------------------------------------
(* Evaluator *)

\* mutant: '/' rounds the quotient down instead of toward zero
calc_apply_floor(a, b, o) ==
    IF o = c_plus THEN [res |-> Add32(a, b), err |-> 0]
    ELSE IF o = c_minus THEN [res |-> Sub32(a, b), err |-> 0]
    ELSE IF o = c_star THEN [res |-> Mul32(a, b), err |-> 0]
    ELSE IF o = c_slash
        THEN (IF b = 0 THEN [res |-> 0, err |-> 1]
              ELSE IF b > 0 THEN [res |-> a \div b, err |-> 0]
              ELSE [res |-> Div32(a, b), err |-> 0])
    ELSE [res |-> b, err |-> 0]

\* calc_apply: the value returned and what it leaves in *err
calc_apply(a, b, o) ==
    IF o = c_plus THEN [res |-> Add32(a, b), err |-> 0]
    ELSE IF o = c_minus THEN [res |-> Sub32(a, b), err |-> 0]
    ELSE IF o = c_star THEN [res |-> Mul32(a, b), err |-> 0]
    ELSE IF o = c_slash
        THEN (IF b = 0 THEN [res |-> 0, err |-> 1]
              ELSE [res |-> Div32(a, b), err |-> 0])
    ELSE [res |-> b, err |-> 0]

-----------------------------------------------------------------------------
(* One iteration of the loop of main, on the locals of main *)

Locals == [num1 |-> num1, num2 |-> num2, res |-> res, op |-> op,
           have_op |-> have_op, err |-> err, out |-> <<>>]

\* mutant: 'C' leaves the second operand and the pending operator alone
KeyClearFirstOnly(s) ==
    [s EXCEPT !.num1 = 0, !.res = 0, !.err = 0,
              !.out = lcd_clear \o lcd_goto(0, 0) \o lcd_print(EnterStr)
                      \o lcd_goto(1, 0)]

\* mutant: 'C' forgets the operator but not that one is pending
KeyClearKeepsHaveOp(s) ==
    [num1 |-> 0, num2 |-> 0, res |-> 0, op |-> 0, have_op |-> s.have_op,
     err |-> 0,
     out |-> lcd_clear \o lcd_goto(0, 0)
             \o lcd_print(EnterStr)
             \o lcd_goto(1, 0)]

\* if(key == 'C')
KeyClear(s) ==
    [num1 |-> 0, num2 |-> 0, res |-> 0, op |-> 0, have_op |-> 0, err |-> 0,
     out |-> lcd_clear \o lcd_goto(0, 0)
             \o lcd_print(EnterStr)
             \o lcd_goto(1, 0)]

\* mutant: the last operator pressed wins
KeyOperatorLastWins(s, ky) ==
    [s EXCEPT !.op = ky, !.have_op = 1,
              !.out = IF s.have_op = 0
                         THEN lcd_data(c_sp) \o lcd_data(ky) \o lcd_data(c_sp)
                         ELSE <<>>]

\* if(key=='+' || key=='-' || key=='*' || key=='/')
KeyOperator(s, ky) ==
    IF s.have_op = 0
        THEN [s EXCEPT !.op = ky, !.have_op = 1,
                       !.out = lcd_data(c_sp) \o lcd_data(ky) \o lcd_data(c_sp)]
        ELSE s

\* mutant: '=' leaves the second operand in num2
EvaluatedKeepsOperand2(s, a, seed) ==
    [num1 |-> seed,
     num2 |-> s.num2,
     res |-> a.res,
     op |-> 0,
     have_op |-> 0,
     err |-> a.err,
     out |-> lcd_clear \o lcd_goto(0, 0) \o lcd_print(ResultStr)
             \o lcd_goto(1, 0)
             \o (IF a.err # 0 THEN lcd_print(ErrorStr)
                               ELSE lcd_print_num(a.res))]

\* what '=' does once it evaluates: seed is the next num1
Evaluated(s, a, seed) ==
    [num1 |-> seed,
     num2 |-> 0,
     res |-> a.res,
     op |-> 0,
     have_op |-> 0,
     err |-> a.err,
     out |-> lcd_clear \o lcd_goto(0, 0) \o lcd_print(ResultStr)
             \o lcd_goto(1, 0)
             \o (IF a.err # 0 THEN lcd_print(ErrorStr)
                               ELSE lcd_print_num(a.res))]

\* mutant: the result is shown but not carried into num1
KeyEqualNoSeed(s) ==
    IF s.have_op # 0
        THEN LET a == calc_apply(s.num1, s.num2, s.op)
             IN Evaluated(s, a, IF a.err # 0 THEN 0 ELSE s.num1)
        ELSE s

\* mutant: a fault leaves the old first operand in num1
KeyEqualFaultKeeps(s) ==
    IF s.have_op # 0
        THEN LET a == calc_apply(s.num1, s.num2, s.op)
             IN Evaluated(s, a, IF a.err # 0 THEN s.num1 ELSE a.res)
        ELSE s

\* mutant: '=' evaluates whether or not an operator is pending
KeyEqualAlways(s) ==
    LET a == calc_apply(s.num1, s.num2, s.op)
    IN Evaluated(s, a, IF a.err # 0 THEN 0 ELSE a.res)

\* mutant: '=' waits for a second operand
KeyEqualNeedsOperand2(s) ==
    IF s.have_op # 0 /\ s.num2 # 0
        THEN LET a == calc_apply(s.num1, s.num2, s.op)
             IN Evaluated(s, a, IF a.err # 0 THEN 0 ELSE a.res)
        ELSE s

\* mutant: the fault indicator is not reset at the start of a call
KeyEqualStickyFault(s) ==
    IF s.have_op # 0
        THEN LET a == calc_apply(s.num1, s.num2, s.op)
                 b == [a EXCEPT !.err = IF s.err # 0 THEN 1 ELSE a.err]
             IN Evaluated(s, b, IF b.err # 0 THEN 0 ELSE b.res)
        ELSE s

\* if(key == '=')
KeyEqual(s) ==
    IF s.have_op # 0
        THEN LET a == calc_apply(s.num1, s.num2, s.op)
             IN Evaluated(s, a, IF a.err # 0 THEN 0 ELSE a.res)
        ELSE s

\* mutant: a digit typed while num1 still holds the last result starts a
\* new number
KeyDigitStartsAfresh(s, ky) ==
    IF s.have_op = 0
        THEN [s EXCEPT !.out = lcd_data(ky),
                       !.num1 = IF s.num1 = s.res /\ s.res # 0
                                   THEN ky - c_0
                                   ELSE Add32(Mul32(s.num1, 10), ky - c_0)]
        ELSE [s EXCEPT !.out = lcd_data(ky),
                       !.num2 = Add32(Mul32(s.num2, 10), ky - c_0)]

\* mutant: a digit that would take the operand out of range is dropped
KeyDigitRejectsOverflow(s, ky) ==
    IF s.have_op = 0
        THEN (IF s.num1 > 214748363 \/ s.num1 < -214748363
                 THEN s
                 ELSE [s EXCEPT !.out = lcd_data(ky),
                                !.num1 = (s.num1 * 10) + (ky - c_0)])
        ELSE (IF s.num2 > 214748363 \/ s.num2 < -214748363
                 THEN s
                 ELSE [s EXCEPT !.out = lcd_data(ky),
                                !.num2 = (s.num2 * 10) + (ky - c_0)])

\* if(key >= '0' && key <= '9')
KeyDigit(s, ky) ==
    IF s.have_op = 0
        THEN [s EXCEPT !.out = lcd_data(ky),
                       !.num1 = Add32(Mul32(s.num1, 10), ky - c_0)]
        ELSE [s EXCEPT !.out = lcd_data(ky),
                       !.num2 = Add32(Mul32(s.num2, 10), ky - c_0)]

\* the body of while(1) after key = keypad_getkey()
MainBody(s, ky) ==
    IF ky = c_C THEN KeyClear(s)
    ELSE IF ky = c_plus \/ ky = c_minus \/ ky = c_star \/ ky = c_slash
        THEN KeyOperator(s, ky)
    ELSE IF ky = c_eq THEN KeyEqual(s)
    ELSE IF ky >= c_0 /\ ky <= c_9 THEN KeyDigit(s, ky)
    ELSE s


-----------------------------------------------------------------------------
(* The other two variants of the evaluator and of the loop of main *)

\* calc_apply of src/unnamed/part_000: the value returned and what it leaves
\* in the global error_flag
part000_calc_apply(a, b, o) ==
    IF o = c_plus THEN [res |-> Add32(a, b), error_flag |-> 0]
    ELSE IF o = c_minus THEN [res |-> Sub32(a, b), error_flag |-> 0]
    ELSE IF o = c_star THEN [res |-> Mul32(a, b), error_flag |-> 0]
    ELSE IF o = c_slash
        THEN (IF b = 0 THEN [res |-> 0, error_flag |-> 1]
              ELSE [res |-> Div32(a, b), error_flag |-> 0])
    ELSE [res |-> b, error_flag |-> 0]

\* mutant: 'C' leaves the global error_flag as it is
part000_main_flag_kept(s, ky) ==
    IF ky = c_C
        THEN [num1 |-> 0, num2 |-> 0, res |-> 0, op |-> 0, have_op |-> 0,
              error_flag |-> s.error_flag,
              out |-> lcd_clear \o lcd_goto(0, 0) \o lcd_print(EnterStr)
                      \o lcd_goto(1, 0)]
    ELSE IF ky = c_plus \/ ky = c_minus \/ ky = c_star \/ ky = c_slash
        THEN (IF s.have_op = 0
                 THEN [s EXCEPT !.op = ky, !.have_op = 1,
                                !.out = lcd_data(c_sp) \o lcd_data(ky)
                                        \o lcd_data(c_sp)]
                 ELSE s)
    ELSE IF ky = c_eq
        THEN (IF s.have_op # 0
                 THEN LET a == part000_calc_apply(s.num1, s.num2, s.op)
                      IN [num1 |-> IF a.error_flag # 0 THEN 0 ELSE a.res,
                          num2 |-> 0,
                          res |-> a.res,
                          op |-> 0,
                          have_op |-> 0,
                          error_flag |-> a.error_flag,
                          out |-> lcd_clear \o lcd_goto(0, 0)
                                  \o lcd_print(ResultStr) \o lcd_goto(1, 0)
                                  \o (IF a.error_flag # 0
                                         THEN lcd_print(ErrorStr)
                                         ELSE lcd_print_num(a.res))]
                 ELSE s)
    ELSE IF ky >= c_0 /\ ky <= c_9
        THEN (IF s.have_op = 0
                 THEN [s EXCEPT !.out = lcd_data(ky),
                                !.num1 = Add32(Mul32(s.num1, 10), ky - c_0)]
                 ELSE [s EXCEPT !.out = lcd_data(ky),
                                !.num2 = Add32(Mul32(s.num2, 10), ky - c_0)])
    ELSE s

\* the body of while(1) of src/unnamed/part_000 after key = keypad_getkey()
part000_main(s, ky) ==
    IF ky = c_C
        THEN [num1 |-> 0, num2 |-> 0, res |-> 0, op |-> 0, have_op |-> 0,
              error_flag |-> 0,
              out |-> lcd_clear \o lcd_goto(0, 0) \o lcd_print(EnterStr)
                      \o lcd_goto(1, 0)]
    ELSE IF ky = c_plus \/ ky = c_minus \/ ky = c_star \/ ky = c_slash
        THEN (IF s.have_op = 0
                 THEN [s EXCEPT !.op = ky, !.have_op = 1,
                                !.out = lcd_data(c_sp) \o lcd_data(ky)
                                        \o lcd_data(c_sp)]
                 ELSE s)
    ELSE IF ky = c_eq
        THEN (IF s.have_op # 0
                 THEN LET a == part000_calc_apply(s.num1, s.num2, s.op)
                      IN [num1 |-> IF a.error_flag # 0 THEN 0 ELSE a.res,
                          num2 |-> 0,
                          res |-> a.res,
                          op |-> 0,
                          have_op |-> 0,
                          error_flag |-> a.error_flag,
                          out |-> lcd_clear \o lcd_goto(0, 0)
                                  \o lcd_print(ResultStr) \o lcd_goto(1, 0)
                                  \o (IF a.error_flag # 0
                                         THEN lcd_print(ErrorStr)
                                         ELSE lcd_print_num(a.res))]
                 ELSE s)
    ELSE IF ky >= c_0 /\ ky <= c_9
        THEN (IF s.have_op = 0
                 THEN [s EXCEPT !.out = lcd_data(ky),
                                !.num1 = Add32(Mul32(s.num1, 10), ky - c_0)]
                 ELSE [s EXCEPT !.out = lcd_data(ky),
                                !.num2 = Add32(Mul32(s.num2, 10), ky - c_0)])
    ELSE s

\* apply_op of src/README.md: the value returned and what it leaves in *err
readme_apply_op(a, b, o) ==
    IF o = c_plus THEN [res |-> Add32(a, b), err |-> 0]
    ELSE IF o = c_minus THEN [res |-> Sub32(a, b), err |-> 0]
    ELSE IF o = c_star THEN [res |-> Mul32(a, b), err |-> 0]
    ELSE IF o = c_slash
        THEN (IF b = 0 THEN [res |-> 0, err |-> 1]
              ELSE [res |-> Div32(a, b), err |-> 0])
    ELSE [res |-> b, err |-> 0]

\* the body of while(1) of src/README.md after key = keypad_getkey(); the
\* display is cleared with lcd_cmd(0x01)
readme_main(s, ky) ==
    IF ky = c_C
        THEN [num1 |-> 0, num2 |-> 0, result |-> 0, op |-> 0, have_op |-> 0,
              err |-> 0,
              out |-> lcd_cmd(1) \o lcd_goto(0, 0) \o lcd_print(EnterStr)
                      \o lcd_goto(1, 0)]
    ELSE IF ky = c_plus \/ ky = c_minus \/ ky = c_star \/ ky = c_slash
        THEN (IF s.have_op = 0
                 THEN [s EXCEPT !.op = ky, !.have_op = 1,
                                !.out = lcd_data(c_sp) \o lcd_data(ky)
                                        \o lcd_data(c_sp)]
                 ELSE s)
    ELSE IF ky = c_eq
        THEN (IF s.have_op # 0
                 THEN LET a == readme_apply_op(s.num1, s.num2, s.op)
                      IN [num1 |-> IF a.err # 0 THEN 0 ELSE a.res,
                          num2 |-> 0,
                          result |-> a.res,
                          op |-> 0,
                          have_op |-> 0,
                          err |-> a.err,
                          out |-> lcd_cmd(1) \o lcd_goto(0, 0)
                                  \o lcd_print(ResultStr) \o lcd_goto(1, 0)
                                  \o (IF a.err # 0
                                         THEN lcd_print(ErrorStr)
                                         ELSE lcd_print_num(a.res))]
                 ELSE s)
    ELSE IF ky >= c_0 /\ ky <= c_9
        THEN (IF s.have_op = 0
                 THEN [s EXCEPT !.out = lcd_data(ky),
                                !.num1 = Add32(Mul32(s.num1, 10), ky - c_0)]
                 ELSE [s EXCEPT !.out = lcd_data(ky),
                                !.num2 = Add32(Mul32(s.num2, 10), ky - c_0)])
    ELSE s

-----------------------------------------------------------------------------
(* The keypad as the firmware meets it *)

IsDigit(sym) == sym >= c_0 /\ sym <= c_9

\* the keys the user presses
DigitKeys == {Asc("0"), Asc("2"), Asc("3"), Asc("5")}
CalcKeys == DigitKeys \cup {c_plus, c_minus, c_star, c_slash, c_eq, c_C}
PadKeys == {Asc("4"), Asc("8"), c_plus}

NoContact == [r |-> 0, c |-> 0, id |-> 0, hold |-> 0]

\* what a raster pass can sample: the contacts as they are, or, while a
\* contact still bounces after an edge, the contacts as they were before it
Reads ==
    {[lines |-> down, left |-> stale]}
    \cup (IF stale > 0 /\ prev # down
             THEN {[lines |-> prev, left |-> stale - 1]}
             ELSE {})

\* press cycles and holds whose contacts a later pass can still sample, or
\* whose return is pending
LiveIds(dn, pv, cy) == {l.id : l \in dn \cup pv} \cup {cy.id}
LiveHolds(dn, pv, cy) == {l.hold : l \in dn \cup pv} \cup {cy.hold}

\* the environment after a raster pass that sampled rd
Sampled(rd) ==
    /\ stale' = rd.left
    /\ prev' = IF rd.left = 0 THEN down ELSE prev
    /\ seen' = rd.lines
    /\ scanned' = keypad_scan(rd.lines)
    /\ UNCHANGED <<down, npress, ndig, env>>

\* an edge: the contacts change, and the next env.bounce passes may miss it
Edge(after) ==
    /\ down' = after
    /\ stale' = env.bounce
    /\ prev' = IF env.bounce = 0 THEN after ELSE down
    /\ reported' = reported \cap LiveIds(down', prev', cyc)
    /\ holds' = holds \cap LiveHolds(down', prev', cyc)
    /\ UNCHANGED <<env, cyc, bounced, most, holdMost>>

\* the user presses the key at (r, c)
Press(r, c) ==
    /\ ~Low(down, r, c)
    /\ KeyAt(r, c) \in env.keys
    /\ Cardinality(down) < env.held
    /\ npress < env.presses
    /\ IsDigit(KeyAt(r, c)) => ndig < MaxDigits
    /\ env.patient => pc = "scan"
    /\ Edge(down \cup {[r |-> r, c |-> c, id |-> npress + 1,
                        hold |-> IF down = {} THEN npress + 1
                                 ELSE (CHOOSE l \in down : TRUE).hold]})
    /\ npress' = npress + 1
    /\ ndig' = IF IsDigit(KeyAt(r, c)) THEN ndig + 1 ELSE 0
    /\ UNCHANGED padVars
    /\ UNCHANGED calcVars

\* the user releases a key
Release(l) ==
    /\ l \in down
    /\ env.patient => pc = "wait"
    /\ Edge(down \ {l})
    /\ UNCHANGED <<npress, ndig>>
    /\ UNCHANGED padVars
    /\ UNCHANGED calcVars

-----------------------------------------------------------------------------
(* keypad_getkey *)

\* the contact that made a pass return symbol sym
ContactOf(lines, sym) ==
    IF \E x \in lines : KeyAt(x.r, x.c) = sym
        THEN CHOOSE x \in lines : KeyAt(x.r, x.c) = sym
        ELSE NoContact

\* mutant: the confirmation poll accepts any key
ConfirmedAnyKey(rd, kk) == rd # 0

\* if(keypad_scan() == k): rd is what the confirmation poll returned
Confirmed(rd, kk) == rd = kk

\* mutant: no wait for the release
WaitDoneAtOnce(rd) == TRUE

\* the exit test of while(keypad_scan() != 0): rd is what the poll returned
WaitDone(rd) == rd = 0

\* mutant: the value of the last poll is returned instead of k
ReturnedLastPoll(kk, rd) == rd

\* return k: the value handed to main, given k and the last poll
Returned(kk, rd) == kk

\* k = keypad_scan(); if(k != 0) delay_ms(25)
Detect ==
    /\ pc = "scan"
    /\ \E rd \in Reads :
        /\ Sampled(rd)
        /\ k' = keypad_scan(rd.lines)
        /\ pc' = IF keypad_scan(rd.lines) # 0 THEN "confirm" ELSE "scan"
    /\ reported' = reported \cap LiveIds(down', prev', cyc)
    /\ holds' = holds \cap LiveHolds(down', prev', cyc)
    /\ UNCHANGED <<cyc, bounced, most, holdMost>>
    /\ UNCHANGED calcVars

\* if(keypad_scan() == k), 25 ms after the detection
Confirm ==
    /\ pc = "confirm"
    /\ \E rd \in Reads :
        /\ Sampled(rd)
        /\ IF Confirmed(keypad_scan(rd.lines), k)
              THEN /\ pc' = "wait"
                   /\ cyc' = ContactOf(rd.lines, keypad_scan(rd.lines))
                   /\ bounced' = bounced
              ELSE /\ pc' = "scan"
                   /\ cyc' = cyc
                   /\ bounced' = TRUE
    /\ reported' = reported \cap LiveIds(down', prev', cyc')
    /\ holds' = holds \cap LiveHolds(down', prev', cyc')
    /\ UNCHANGED <<k, most, holdMost>>
    /\ UNCHANGED calcVars

\* while(keypad_scan() != 0); return k;   -- one poll of the loop
WaitRelease ==
    /\ pc = "wait"
    /\ \E rd \in Reads :
        /\ Sampled(rd)
        /\ IF WaitDone(keypad_scan(rd.lines))
              THEN /\ pc' = "main"
                   /\ key' = Returned(k, keypad_scan(rd.lines))
                   /\ cyc' = NoContact
                   /\ reported' = (reported \cup {cyc.id})
                                      \cap LiveIds(down', prev', NoContact)
                   /\ holds' = (holds \cup {cyc.hold})
                                   \cap LiveHolds(down', prev', NoContact)
                   /\ most' = IF cyc.id \in reported THEN 2
                              ELSE IF most = 0 THEN 1 ELSE most
                   /\ holdMost' = IF cyc.hold \in holds THEN 2
                                  ELSE IF holdMost = 0 THEN 1 ELSE holdMost
              ELSE /\ pc' = "wait"
                   /\ reported' = reported \cap LiveIds(down', prev', cyc)
                   /\ holds' = holds \cap LiveHolds(down', prev', cyc)
                   /\ UNCHANGED <<key, cyc, most, holdMost>>
    /\ UNCHANGED <<k, bounced>>
    /\ UNCHANGED <<num1, num2, res, op, have_op, err, out, part000, readme>>

-----------------------------------------------------------------------------
(* main *)

\* one pass through the body of while(1) for the key just returned
MainIteration ==
    /\ pc = "main"
    /\ LET t == MainBody(Locals, key)
       IN /\ num1' = t.num1
          /\ num2' = t.num2
          /\ res' = t.res
          /\ op' = t.op
          /\ have_op' = t.have_op
          /\ err' = t.err
          /\ out' = t.out
    /\ part000' = part000_main([part000 EXCEPT !.out = <<>>], key)
    /\ readme' = readme_main([readme EXCEPT !.out = <<>>], key)
    /\ pc' = "scan"
    /\ bounced' = FALSE
    /\ UNCHANGED <<key, k, scanned, seen>>
    /\ UNCHANGED envVars
    /\ UNCHANGED <<cyc, reported, holds, most, holdMost>>

\* main is about to call keypad_getkey with no key down, in environment e
Idle(e) ==
    /\ env = e
    /\ down = {} /\ prev = {} /\ stale = 0 /\ npress = 0 /\ ndig = 0
    /\ pc = "scan" /\ k = 0 /\ scanned = 0 /\ seen = {}
    /\ key = 0
    /\ cyc = NoContact /\ bounced = FALSE /\ reported = {} /\ holds = {}
    /\ most = 0 /\ holdMost = 0

\* the state when main enters while(1): the prompt is on the display
Boot(e) ==
    /\ Idle(e)
    /\ num1 = 0 /\ num2 = 0 /\ res = 0 /\ op = 0
    /\ have_op = 0 /\ err = 0
    /\ out = lcd_goto(0, 0) \o lcd_print(EnterStr) \o lcd_goto(1, 0)
    /\ part000 = [num1 |-> 0, num2 |-> 0, res |-> 0, op |-> 0, have_op |-> 0,
                  error_flag |-> 0,
                  out |-> lcd_goto(0, 0) \o lcd_print(EnterStr)
                          \o lcd_goto(1, 0)]
    /\ readme = [num1 |-> 0, num2 |-> 0, result |-> 0, op |-> 0, have_op |-> 0,
                 err |-> 0,
                 out |-> lcd_goto(0, 0) \o lcd_print(EnterStr)
                         \o lcd_goto(1, 0)]

Next ==
    \/ \E r \in Rows, c \in Cols : Press(r, c)
    \/ \E l \in down : Release(l)
    \/ Detect
    \/ Confirm
    \/ WaitRelease
    \/ MainIteration

\* overlapping holds, on steady contacts or on bouncing ones
Init ==
    \E b \in {0, MaxBounce} :
        Boot([held |-> MaxHeld, bounce |-> b, presses |-> MaxPresses,
              keys |-> PadKeys, patient |-> FALSE])

Spec == Init /\ [][Next]_vars

\* one key at a time on steady contacts, pressed while the firmware polls and
\* held until it is confirmed: the calculator's key sequences
CalcInit ==
    Boot([held |-> 1, bounce |-> 0, presses |-> CalcPresses, keys |-> CalcKeys,
          patient |-> TRUE])

CalcSpec == CalcInit /\ [][Next]_vars

\* the same environment with the keys of chained sums and of a division by
\* zero, for longer key sequences
ChainKeys == {Asc("2"), Asc("3"), Asc("5"), c_plus, c_slash, c_eq}

ChainInit ==
    Boot([held |-> 1, bounce |-> 0, presses |-> ChainPresses,
          keys |-> ChainKeys, patient |-> TRUE])

ChainSpec == ChainInit /\ [][Next]_vars

\* the same environment with the keys of a division by a typed 0 followed by
\* a sum
FaultKeys == {Asc("0"), Asc("2"), Asc("3"), Asc("5"), c_plus, c_slash, c_eq}

FaultInit ==
    Boot([held |-> 1, bounce |-> 0, presses |-> FaultPresses,
          keys |-> FaultKeys, patient |-> TRUE])

FaultSpec == FaultInit /\ [][Next]_vars

\* one key at a time on bouncing contacts; the processor keeps running and
\* a key that is held is released in the end
LiveInit ==
    Boot([held |-> 1, bounce |-> MaxBounce, presses |-> LivePresses,
          keys |-> PadKeys, patient |-> FALSE])

LiveSpec ==
    /\ LiveInit
    /\ [][Next]_vars
    /\ WF_vars(Detect)
    /\ WF_vars(Confirm)
    /\ WF_vars(WaitRelease)
    /\ WF_vars(MainIteration)
    /\ WF_vars(\E l \in down : Release(l))

\* operands main can hold between two keys: a digit string typed into an
\* operand is its decimal value modulo 2^32, so every value of `long` can be
\* typed (2147483648 gives the most negative value, 4294967295 gives -1)
Operands ==
    {MinLong, -MaxLong, -214748365, -65536, -7, -1, 0, 1, 2, 7, 10,
     46341, 65536, 214748364, 214748365, MaxLong}

OperandKeys == {Asc("0"), Asc("5"), c_eq, c_plus}

\* main waits for a key with operands already typed: no operator yet, or an
\* operator and a second operand; err is what the last evaluation left
OperandInit ==
    \E a \in Operands, b \in Operands,
       o \in {0, c_plus, c_minus, c_star, c_slash}, f \in {0, 1} :
        /\ Idle([held |-> 1, bounce |-> 0, presses |-> OperandPresses,
                 keys |-> OperandKeys, patient |-> TRUE])
        /\ num1 = a
        /\ num2 = (IF o = 0 THEN 0 ELSE b)
        /\ op = o
        /\ have_op = (IF o = 0 THEN 0 ELSE 1)
        /\ err = f
        /\ res = 0
        /\ out = <<>>
        /\ part000 = [num1 |-> a, num2 |-> IF o = 0 THEN 0 ELSE b, res |-> 0,
                      op |-> o, have_op |-> IF o = 0 THEN 0 ELSE 1,
                      error_flag |-> f, out |-> <<>>]
        /\ readme = [num1 |-> a, num2 |-> IF o = 0 THEN 0 ELSE b, result |-> 0,
                     op |-> o, have_op |-> IF o = 0 THEN 0 ELSE 1,
                     err |-> f, out |-> <<>>]

OperandSpec == OperandInit /\ [][Next]_vars

\* every key of the matrix, one at a time on steady contacts
AllKeys == {KeyTable[c][r] : r \in Rows, c \in Cols}

LayoutInit ==
    Boot([held |-> 1, bounce |-> 0, presses |-> LayoutPresses,
          keys |-> AllKeys, patient |-> FALSE])

LayoutSpec == LayoutInit /\ [][Next]_vars

-----------------------------------------------------------------------------
(* Claims about keypad_getkey and keypad_scan *)

Symbols == {KeyAt(r, c) : r \in Rows, c \in Cols}

\* the position of a contact in the raster order: C1 first, R1 first within it
Rank(l) == (l.c - 1) * 4 + l.r

\* C1: each physical press-and-release cycle of a key is returned by
\* keypad_getkey at most once, also when raster passes near an edge sample
\* the bouncing contact at its old level
C1_NoPressReturnedTwice == most <= 1

C3_ConfirmedPressReturned ==
    \A sym \in PadKeys :
        (pc = "wait" /\ k = sym) ~> (pc = "main" /\ key = sym)

\* a key is handed to main although its first confirmation poll bounced
C3_Witness == pc = "main" /\ bounced /\ key \in PadKeys /\ down = {}

-----------------------------------------------------------------------------
(* Claims about the loop of main *)

IsOperator(sym) ==
    sym = c_plus \/ sym = c_minus \/ sym = c_star \/ sym = c_slash

\* the step in which main handles the key it holds
Handles == pc = "main" /\ pc' = "scan"

Canonical == num1 = 0 /\ num2 = 0 /\ op = 0 /\ have_op = 0 /\ err = 0

ClearScreen ==
    <<<<"cmd", 1>>, <<"cmd", 128>>>> \o [i \in 1..6 |-> <<"data", EnterStr[i]>>]
    \o <<<<"cmd", 192>>>>

ResultHeader ==
    <<<<"cmd", 1>>, <<"cmd", 128>>>> \o [i \in 1..7 |-> <<"data", ResultStr[i]>>]
    \o <<<<"cmd", 192>>>>

ErrorScreen == ResultHeader \o [i \in 1..9 |-> <<"data", ErrorStr[i]>>]

\* a op b over the integers, the quotient truncated toward zero
Exact(a, b, o) ==
    IF o = c_plus THEN a + b
    ELSE IF o = c_minus THEN a - b
    ELSE IF o = c_star THEN a * b
    ELSE LET q == (IF a < 0 THEN -a ELSE a) \div (IF b < 0 THEN -b ELSE b)
         IN IF (a < 0) = (b < 0) THEN q ELSE -q

\* C6: 'C' takes every reachable state to operand1 = 0, operand2 = 0, no
\* pending operator, fault = false, so a second 'C' changes nothing
C6_ClearIsCanonical ==
    [][(Handles /\ key = c_C) => (Canonical' /\ res' = 0 /\ out' = ClearScreen)]_vars

\* 'C' is about to be handled again right after a 'C' that followed other keys
C6_Witness ==
    /\ pc = "main" /\ key = c_C /\ Canonical /\ out = ClearScreen
    /\ npress > 3

\* C7: '=' with an operator pending leaves operand1 = operand1 op operand2
\* (0 on a division by zero), operand2 = 0 and no pending operator; so
\* 5 + 3 = leaves 8 and + 2 = after it leaves 10
C7_EqualSeedsResult ==
    [][(Handles /\ key = c_eq /\ have_op # 0) =>
          LET fault == op = c_slash /\ num2 = 0
          IN /\ num1' = IF fault THEN 0 ELSE Exact(num1, num2, op)
             /\ num2' = 0 /\ op' = 0 /\ have_op' = 0
             /\ err' = IF fault THEN 1 ELSE 0
             /\ (num1 = 5 /\ num2 = 3 /\ op = c_plus) => num1' = 8
             /\ (num1 = 8 /\ num2 = 2 /\ op = c_plus) => num1' = 10
      ]_vars

\* seven keys, d op d = + 2 =, have been typed: the first '=' left 8 in num1
\* and the second '=' is about to add 2 to it
C7_Witness ==
    /\ pc = "main" /\ key = c_eq /\ npress = 7
    /\ num1 = 8 /\ res = 8 /\ num2 = 2 /\ op = c_plus /\ have_op = 1

\* C8: '=' with '/' pending and operand2 = 0 shows the division-by-zero
\* message and leaves operand1 = 0, operand2 = 0 and no pending operator,
\* so 3 + 2 = typed after 5 / 0 = gives 5
C8_FaultResetsOperands ==
    [][ /\ (Handles /\ key = c_eq /\ have_op # 0 /\ op = c_slash /\ num2 = 0) =>
              /\ out' = ErrorScreen
              /\ num1' = 0 /\ num2' = 0 /\ op' = 0 /\ have_op' = 0
              /\ err' = 1
        /\ (Handles /\ key = c_eq /\ err = 1 /\ num1 = 3 /\ num2 = 2
                /\ op = c_plus /\ have_op # 0) =>
              /\ num1' = 5
              /\ out' = ResultHeader \o <<<<"data", Asc("5")>>>>
      ]_vars

\* eight keys, d / 0 = 3 + 2 =, have been typed: the last evaluation faulted
\* (err is still 1) and the second '=' is about to add 3 and 2
C8_Witness ==
    /\ pc = "main" /\ key = c_eq /\ npress = 8
    /\ err = 1 /\ res = 0 /\ num1 = 3 /\ num2 = 2 /\ op = c_plus /\ have_op = 1

\* C9: an operator key pressed while an operator is pending changes no
\* local of main and issues no display request
C9_SecondOperatorIgnored ==
    [][(Handles /\ IsOperator(key) /\ have_op # 0) =>
          /\ UNCHANGED <<num1, num2, res, op, have_op, err>>
          /\ out' = <<>>
      ]_vars

\* an operator other than the pending one has just been ignored
C9_Witness ==
    /\ pc = "scan" /\ IsOperator(key) /\ key # op /\ have_op = 1
    /\ out = <<>> /\ num1 = 5

\* C10: '=' with no operator pending changes no local of main and issues no
\* display request
C10_PrematureEqualIgnored ==
    [][(Handles /\ key = c_eq /\ have_op = 0) =>
          /\ UNCHANGED <<num1, num2, res, op, have_op, err>>
          /\ out' = <<>>
      ]_vars

\* '=' has just been ignored with a first operand typed
C10_Witness ==
    /\ pc = "scan" /\ key = c_eq /\ have_op = 0 /\ out = <<>> /\ num1 = 5

-----------------------------------------------------------------------------
(* Two's complement arithmetic on the four bytes of a `long` *)

\* byte i (0 the least significant) of the two's complement form of x
ByteOf(x, i) ==
    IF i = 0 THEN x % 256
    ELSE IF i = 1 THEN (x \div 256) % 256
    ELSE IF i = 2 THEN (x \div 65536) % 256
    ELSE (x \div 16777216) % 256

\* the value whose two's complement bytes are b0 (least significant) .. b3
FromBytes(b0, b1, b2, b3) ==
    (b0 + 256 * b1 + 65536 * b2)
        + 16777216 * (IF b3 >= 128 THEN b3 - 256 ELSE b3)

\* a + b modulo 2^32: byte by byte with carry
WrapSum(a, b) ==
    LET s0 == ByteOf(a, 0) + ByteOf(b, 0)
        s1 == ByteOf(a, 1) + ByteOf(b, 1) + (s0 \div 256)
        s2 == ByteOf(a, 2) + ByteOf(b, 2) + (s1 \div 256)
        s3 == ByteOf(a, 3) + ByteOf(b, 3) + (s2 \div 256)
    IN FromBytes(s0 % 256, s1 % 256, s2 % 256, s3 % 256)

\* a - b modulo 2^32: a plus the complement of b plus one
WrapDiff(a, b) ==
    LET s0 == ByteOf(a, 0) + (255 - ByteOf(b, 0)) + 1
        s1 == ByteOf(a, 1) + (255 - ByteOf(b, 1)) + (s0 \div 256)
        s2 == ByteOf(a, 2) + (255 - ByteOf(b, 2)) + (s1 \div 256)
        s3 == ByteOf(a, 3) + (255 - ByteOf(b, 3)) + (s2 \div 256)
    IN FromBytes(s0 % 256, s1 % 256, s2 % 256, s3 % 256)

\* a * b modulo 2^32: the low four columns of the long multiplication
WrapProd(a, b) ==
    LET A(i) == ByteOf(a, i)
        B(i) == ByteOf(b, i)
        p0 == A(0) * B(0)
        p1 == A(0) * B(1) + A(1) * B(0) + (p0 \div 256)
        p2 == A(0) * B(2) + A(1) * B(1) + A(2) * B(0) + (p1 \div 256)
        p3 == A(0) * B(3) + A(1) * B(2) + A(2) * B(1) + A(3) * B(0)
                  + (p2 \div 256)
    IN FromBytes(p0 % 256, p1 % 256, p2 % 256, p3 % 256)

-----------------------------------------------------------------------------
(* Claims about operands and the evaluator *)

\* C11: a digit key d changes exactly one operand, operand1 <- operand1*10+d
\* when no operator is pending and operand2 <- operand2*10+d otherwise, and
\* leaves the pending operator alone; no digit is rejected for length: the
\* digit is echoed and the sum is taken modulo 2^32
C11_DigitAccumulates ==
    [][(Handles /\ IsDigit(key)) =>
          LET d == key - c_0
              InRange(n) == n >= -214748364 /\ n <= 214748363
          IN /\ UNCHANGED <<op, have_op, res, err>>
             /\ out' = <<<<"data", key>>>>
             /\ have_op = 0 =>
                   /\ num1' = WrapSum(WrapProd(num1, 10), d)
                   /\ InRange(num1) => num1' = (num1 * 10) + d
                   /\ num2' = num2
             /\ have_op # 0 =>
                   /\ num2' = WrapSum(WrapProd(num2, 10), d)
                   /\ InRange(num2) => num2' = (num2 * 10) + d
                   /\ num1' = num1
      ]_vars

\* a digit typed after 214748365 has taken operand2 past the largest value
C11_Witness ==
    /\ pc = "scan" /\ key = c_0 /\ have_op = 1
    /\ num2 = -2147483646 /\ out = <<<<"data", c_0>>>>

\* the quotient a / b has a value of type long: all pairs but one
Representable(a, b) == ~(a = MinLong /\ b = -1)

\* a / b rounded toward zero, for b # 0 and a representable quotient
TruncQuotient(a, b) ==
    LET T(x, d) == IF x < 0 THEN (x + (d - 1)) \div d ELSE x \div d
    IN IF b > 0 THEN T(a, b)
       ELSE IF b = MinLong THEN (IF a = MinLong THEN 1 ELSE 0)
       ELSE -T(a, -b)

\* '=' is handled with an operator pending and a second operand other than 0
AppliesNonZero ==
    Handles /\ key = c_eq /\ have_op # 0 /\ IsOperator(op) /\ num2 # 0

\* C12 as stated: for every a, every b # 0 and every op of + - * /,
\* calc_apply(a, b, op) reports no fault and returns the sum, difference or
\* product modulo 2^32, and for '/' the quotient rounded toward zero
C12_ApplyFixedWidth ==
    [][AppliesNonZero =>
          /\ err' = 0
          /\ op = c_plus => res' = WrapSum(num1, num2)
          /\ op = c_minus => res' = WrapDiff(num1, num2)
          /\ op = c_star => res' = WrapProd(num1, num2)
          /\ op = c_slash =>
                /\ Representable(num1, num2)
                /\ res' = TruncQuotient(num1, num2)
      ]_vars

\* C12 amended: as above, with the quotient rounded toward zero whenever it
\* is a value of type long; for the most negative value divided by -1 only
\* the absence of a fault is stated
C12_ApplyFixedWidthRepresentable ==
    [][AppliesNonZero =>
          /\ err' = 0
          /\ op = c_plus => res' = WrapSum(num1, num2)
          /\ op = c_minus => res' = WrapDiff(num1, num2)
          /\ op = c_star => res' = WrapProd(num1, num2)
          /\ (op = c_slash /\ Representable(num1, num2)) =>
                res' = TruncQuotient(num1, num2)
      ]_vars

\* '=' is about to divide -7 by 2, where rounding toward zero and rounding
\* down differ
C12_Witness ==
    /\ pc = "main" /\ key = c_eq /\ have_op = 1
    /\ num1 = -7 /\ num2 = 2 /\ op = c_slash

\* C13: for every a, calc_apply(a, 0, '/') returns 0 and reports the fault;
\* a call that does not divide by zero reports no fault, whatever the call
\* before it reported
C13_FaultOnlyFromArguments ==
    [][(Handles /\ key = c_eq /\ have_op # 0) =>
          IF op = c_slash /\ num2 = 0
              THEN res' = 0 /\ err' = 1
              ELSE err' = 0
      ]_vars

\* the last evaluation faulted and '=' is about to divide the most negative
\* value by 7
C13_Witness ==
    /\ pc = "main" /\ key = c_eq /\ have_op = 1 /\ err = 1
    /\ num1 = MinLong /\ num2 = 7 /\ op = c_slash

\* 10^0 .. 10^9
Pow10 ==
    <<1, 10, 100, 1000, 10000, 100000, 1000000, 10000000, 100000000,
      1000000000>>

\* the decimal digits of m > 0, most significant first, no leading zeros
Digits(m) ==
    LET n == Cardinality({p \in 1..10 : Pow10[p] <= m})
    IN [j \in 1..n |-> <<"data", ((m \div Pow10[n + 1 - j]) % 10) + c_0>>]

\* the characters of the decimal representation of n
Decimal(n) ==
    IF n = 0 THEN <<<<"data", c_0>>>>
    ELSE IF n = MinLong
        THEN <<<<"data", c_minus>>>>
             \o [j \in 1..10 |->
                    <<"data", <<2, 1, 4, 7, 4, 8, 3, 6, 4, 8>>[j] + c_0>>]
    ELSE IF n < 0 THEN <<<<"data", c_minus>>>> \o Digits(-n)
    ELSE Digits(n)

\* C14: lcd_print_num writes, for every n of type long, the most negative
\* one included, the decimal representation of n: '0' for zero, otherwise
\* '-' when n < 0 and then the digits of |n| without leading zeros
C14_PrintsDecimal ==
    [][(Handles /\ key = c_eq /\ have_op # 0 /\ err' = 0) =>
          out' = ResultHeader \o Decimal(res')
      ]_vars

\* C15: whenever '=' evaluates, the pending operator is one of + - * /, so
\* calc_apply never takes its default branch
C15_DefaultBranchUnreachable ==
    [][(Handles /\ key = c_eq /\ have_op # 0) => IsOperator(op)]_vars

\* '=' is about to evaluate 5 - 3, typed as the third to fifth of six keys
C15_Witness ==
    /\ pc = "main" /\ key = c_eq /\ have_op = 1 /\ op = c_minus
    /\ num1 = 5 /\ num2 = 3 /\ npress = 6 /\ out = <<<<"data", Asc("3")>>>>

-----------------------------------------------------------------------------
(* Claims about the variants *)

\* the two documented layouts, row by row
LayoutPlusFirst ==
    << <<Asc("1"), Asc("2"), Asc("3"), Asc("+")>>,
       <<Asc("4"), Asc("5"), Asc("6"), Asc("-")>>,
       <<Asc("7"), Asc("8"), Asc("9"), Asc("*")>>,
       <<Asc("C"), Asc("0"), Asc("="), Asc("/")>> >>

LayoutSlashFirst ==
    << <<Asc("7"), Asc("8"), Asc("9"), Asc("/")>>,
       <<Asc("4"), Asc("5"), Asc("6"), Asc("*")>>,
       <<Asc("1"), Asc("2"), Asc("3"), Asc("-")>>,
       <<Asc("C"), Asc("0"), Asc("="), Asc("+")>> >>

\* the 16 key symbols: 0-9 + - * / = C
KeySymbols ==
    {c_0 + d : d \in 0..9} \cup {c_plus, c_minus, c_star, c_slash, c_eq, c_C}

\* F maps the 16 positions one-to-one onto the 16 key symbols
Bijective(F(_, _)) ==
    /\ \A r \in Rows, c \in Cols : F(r, c) \in KeySymbols
    /\ \A sym \in KeySymbols :
          Cardinality({p \in Rows \X Cols : F(p[1], p[2]) = sym}) = 1

\* each variant's mapping from the position of a single closed contact to the
\* symbol returned is a bijection
VariantsBijective ==
    LET ScanOf(r, c) == keypad_scan({[r |-> r, c |-> c]})
        Part000Of(r, c) == part000_keypad_scan({[r |-> r, c |-> c]})
        ReadmeOf(r, c) == readme_keypad_getkey({[r |-> r, c |-> c]})
    IN Bijective(ScanOf) /\ Bijective(Part000Of) /\ Bijective(ReadmeOf)

\* C16: in every variant the position-to-symbol mapping is a bijection onto
\* the 16 key symbols and is one of the two documented layouts: a raster
\* pass that samples the single contact (r, c) closed returns that layout's
\* symbol for (r, c)
C16_LayoutBijection ==
    /\ VariantsBijective
    /\ \A l \in seen :
          seen = {l} =>
              /\ scanned = LayoutSlashFirst[l.r][l.c]
              /\ part000_keypad_scan(seen) = LayoutSlashFirst[l.r][l.c]
              /\ readme_keypad_getkey(seen) = LayoutPlusFirst[l.r][l.c]

\* the key in the last row and last column is sampled alone
C16_Witness ==
    /\ \E l \in seen : seen = {l} /\ l.r = 4 /\ l.c = 4
    /\ scanned = c_plus
    /\ readme_keypad_getkey(seen) = c_slash

\* C17: fed the same keys from the start of the loop, the loops of
\* src/calculator.c, src/unnamed/part_000 and src/README.md hold the same
\* operands, pending operator and fault indicator after every key and have
\* issued the same display requests for it
C17_VariantsEquivalent ==
    /\ part000 = [num1 |-> num1, num2 |-> num2, res |-> res, op |-> op,
                  have_op |-> have_op, error_flag |-> err, out |-> out]
    /\ readme = [num1 |-> num1, num2 |-> num2, result |-> res, op |-> op,
                 have_op |-> have_op, err |-> err, out |-> out]

\* 'C' is about to be handled while the fault of a division by zero is still
\* recorded in all three variants
C17_Witness ==
    /\ pc = "main" /\ key = c_C
    /\ err = 1 /\ part000.error_flag = 1 /\ readme.err = 1
    /\ out = ErrorScreen /\ part000.out = ErrorScreen /\ readme.out = ErrorScreen

-----------------------------------------------------------------------------
(* Further claims about the loop of main *)

\* C18: between two iterations of the loop, have_op = 0 exactly when op = 0,
\* have_op = 1 exactly when op is one of + - * /, and num2 = 0 whenever no
\* operator is pending
C18_PendingOperatorConsistent ==
    /\ have_op \in {0, 1}
    /\ have_op = 0 <=> op = 0
    /\ have_op = 1 <=> IsOperator(op)
    /\ have_op = 0 => num2 = 0

\* '=' has just evaluated 5 * 3 or 3 * 5 and cleared the second operand
C18_Witness ==
    /\ pc = "scan" /\ key = c_eq /\ res = 15 /\ num1 = 15
    /\ have_op = 0 /\ op = 0 /\ num2 = 0

\* the last key handled was an '=' that evaluated: its display requests are
\* the latest ones
AfterEvaluation ==
    Len(out) > Len(ResultHeader)
        /\ SubSeq(out, 1, Len(ResultHeader)) = ResultHeader

\* C19: a digit d typed right after a successful '=' that left r in operand1
\* is appended to r, operand1 <- r*10 + d, and after a faulted '=' it starts
\* from 0; so 5 + 3 = and then 3 + 2 = adds 83 and 2 and yields 85
C19_DigitAppendsToResult ==
    [][ /\ (Handles /\ IsDigit(key) /\ AfterEvaluation) =>
              IF err = 0
                  THEN num1 = res /\ num1' = (res * 10) + (key - c_0)
                  ELSE num1 = 0 /\ num1' = key - c_0
        /\ (Handles /\ key = Asc("3") /\ AfterEvaluation /\ res = 8 /\ err = 0)
              => num1' = 83
        /\ (Handles /\ key = c_eq /\ have_op # 0 /\ num1 = 83 /\ num2 = 2
                /\ op = c_plus) =>
              num1' = 85
      ]_vars

\* eight keys, d op d = 3 + 2 =, have been typed and the first result was 8:
\* the second '=' has left 85
C19_Witness ==
    /\ pc = "scan" /\ key = c_eq /\ npress = 8
    /\ num1 = 85 /\ res = 85 /\ err = 0
    /\ out = ResultHeader \o <<<<"data", Asc("8")>>, <<"data", Asc("5")>>>>

\* the last key handled was the operator that is now pending: no digit of the
\* second operand has been typed
OperatorJustTaken ==
    have_op # 0 /\ out = <<<<"data", c_sp>>, <<"data", op>>, <<"data", c_sp>>>>

\* C20: '=' evaluates whenever an operator is pending; typed right after the
\* operator it uses operand2 = 0, so 5 + = yields 5, 5 * = yields 0 and
\* 5 / = reports the division by zero; an operator typed before any digit
\* takes operand1 = 0, so - 5 = yields -5
C20_EvaluatesWithoutOperand2 ==
    [][ /\ (Handles /\ key = c_eq /\ have_op # 0) =>
              /\ AfterEvaluation'
              /\ have_op' = 0
        /\ (Handles /\ key = c_eq /\ OperatorJustTaken) =>
              /\ num2 = 0
              /\ (op = c_plus \/ op = c_minus) =>
                    /\ num1' = num1 /\ err' = 0
                    /\ out' = ResultHeader \o Decimal(num1)
              /\ op = c_star =>
                    /\ num1' = 0 /\ err' = 0
                    /\ out' = ResultHeader \o Decimal(0)
              /\ op = c_slash =>
                    /\ num1' = 0 /\ err' = 1
                    /\ out' = ErrorScreen
        /\ (Handles /\ IsOperator(key) /\ have_op = 0) =>
              /\ op' = key /\ have_op' = 1
              /\ UNCHANGED <<num1, num2>>
        /\ (Handles /\ key = c_eq /\ have_op # 0 /\ num1 = 0 /\ num2 = 5
                /\ op = c_minus) =>
              /\ num1' = -5
              /\ out' = ResultHeader
                            \o <<<<"data", c_minus>>, <<"data", Asc("5")>>>>
      ]_vars

\* the three keys - 5 = have been typed and have left -5
C20_Witness ==
    /\ pc = "scan" /\ key = c_eq /\ npress = 3
    /\ num1 = -5 /\ res = -5 /\ err = 0 /\ have_op = 0

====
